---- MODULE Spec2Model ----
(***************************************************************************)
(* Model of the gradient renderer: the colour model and gradient engine of *)
(* src/src/gradient.rs, the caching element of src/src/lib.rs and the      *)
(* standalone program src/src/main.rs.                                     *)
(*                                                                         *)
(* f32 values are modelled as exact rationals <<n, d>> (d > 0, lowest      *)
(* terms) extended with the IEEE-754 specials the code can produce:        *)
(* NaN = <<0,0>>, +inf = <<1,0>>, -inf = <<-1,0>>.  Rounding is not        *)
(* modelled; division by zero, NaN propagation, clamp, remainder and the   *)
(* saturating float-to-u8 cast are.                                        *)
(***************************************************************************)
EXTENDS Integers, Sequences, FiniteSets, TLC

VARIABLES colors, gradient_type, start, end,    \* the Gradient
          angle_or_corner, cached_size, cache,  \* the GradientElement around it
          ctor,                                 \* the constructor call that built the object
          call, ret                             \* the last call made on it, and its result

vars == <<colors, gradient_type, start, end, angle_or_corner, cached_size, cache, ctor, call, ret>>

-----------------------------------------------------------------------------
(* Bounds of the model. *)

\* Largest number of colour stops of a Gradient built directly.
MaxStops == 3
\* Largest number of colour stops pushed onto a GradientElement.
MaxElementStops == 2
\* Largest canvas width and height a GradientElement is rendered at.
MaxDim == 1
\* Width and height of the square canvas a Gradient is built for and rendered at.
SquareDim == 2
\* Width of the wide one-row canvas (pixels x = 0 .. WideW - 1).
WideW == 10

-----------------------------------------------------------------------------
(* f32 arithmetic. *)

Abs(n) == IF n < 0 THEN -n ELSE n

RECURSIVE GCD(_, _)
GCD(a, b) == IF b = 0 THEN a ELSE GCD(b, a % b)

\* The rational n/d, d # 0, in lowest terms with a positive denominator.
Rat(n, d) ==
    LET g == GCD(Abs(n), Abs(d))
        s == IF d < 0 THEN -1 ELSE 1
    IN  <<(s * n) \div g, (s * d) \div g>>

NaN == <<0, 0>>
PosInf == <<1, 0>>
NegInf == <<-1, 0>>
Zero == <<0, 1>>
One == <<1, 1>>
Half == <<1, 2>>

IsNaN(x) == x = NaN
IsFinite(x) == x[2] # 0
Sign(x) == IF x[1] > 0 THEN 1 ELSE IF x[1] < 0 THEN -1 ELSE 0

FNeg(x) == <<-x[1], x[2]>>

FAdd(x, y) ==
    IF IsNaN(x) \/ IsNaN(y) THEN NaN
    ELSE IF ~IsFinite(x) /\ ~IsFinite(y) THEN (IF x = y THEN x ELSE NaN)
    ELSE IF ~IsFinite(x) THEN x
    ELSE IF ~IsFinite(y) THEN y
    ELSE Rat(x[1] * y[2] + y[1] * x[2], x[2] * y[2])

FSub(x, y) == FAdd(x, FNeg(y))

FMul(x, y) ==
    IF IsNaN(x) \/ IsNaN(y) THEN NaN
    ELSE IF ~IsFinite(x) \/ ~IsFinite(y)
         THEN (IF Sign(x) * Sign(y) = 0 THEN NaN ELSE <<Sign(x) * Sign(y), 0>>)
    ELSE Rat(x[1] * y[1], x[2] * y[2])

\* IEEE division; the zero divisors the code produces are +0 (a square root,
\* or the difference of two equal numbers).
FDiv(x, y) ==
    IF IsNaN(x) \/ IsNaN(y) THEN NaN
    ELSE IF ~IsFinite(y) THEN (IF IsFinite(x) THEN Zero ELSE NaN)
    ELSE IF ~IsFinite(x) THEN (IF Sign(y) < 0 THEN FNeg(x) ELSE x)
    ELSE IF y[1] = 0 THEN <<Sign(x), 0>>
    ELSE Rat(x[1] * y[2], x[2] * y[1])

\* x < y; every comparison with NaN is false.
FLt(x, y) ==
    IF IsNaN(x) \/ IsNaN(y) THEN FALSE
    ELSE IF ~IsFinite(x) THEN x = NegInf /\ y # NegInf
    ELSE IF ~IsFinite(y) THEN y = PosInf
    ELSE x[1] * y[2] < y[1] * x[2]

FGt(x, y) == FLt(y, x)
FLe(x, y) == ~IsNaN(x) /\ ~IsNaN(y) /\ ~FLt(y, x)

\* f32::clamp(min, max): NaN stays NaN.
FClamp(x, lo, hi) == IF FLt(x, lo) THEN lo ELSE IF FGt(x, hi) THEN hi ELSE x

\* x % 1.0: the truncating remainder, with the sign of x; NaN for NaN and inf.
FRem1(x) ==
    IF ~IsFinite(x) THEN NaN
    ELSE Rat(Sign(x) * (Abs(x[1]) % x[2]), x[2])

\* The least r >= from with r * r >= n.
RECURSIVE RootFrom(_, _)
RootFrom(n, from) == IF from * from >= n THEN from ELSE RootFrom(n, from + 1)

\* The integer square root of a perfect square n, -1 when n is no perfect square.
ISqrt(n) == LET r == RootFrom(n, 0) IN IF r * r = n THEN r ELSE -1

\* f32::sqrt on the values whose root is rational; NaN stands for the others,
\* which the model never computes with.
FSqrt(x) ==
    LET n == ISqrt(x[1])
        d == ISqrt(x[2])
    IN  IF IsFinite(x) /\ x[1] >= 0 /\ n >= 0 /\ d >= 0 THEN <<n, d>> ELSE NaN

\* (x * 255.0) as u8: truncation toward zero, saturating, NaN to 0.
ToByte(x) ==
    LET v == FMul(x, <<255, 1>>)
    IN  IF IsNaN(v) THEN 0
        ELSE IF ~IsFinite(v) THEN (IF v = PosInf THEN 255 ELSE 0)
        ELSE IF v[1] < 0 THEN 0
        ELSE IF v[1] \div v[2] > 255 THEN 255
        ELSE v[1] \div v[2]

Px(n) == <<n, 1>>
Point(x, y) == [x |-> x, y |-> y]
Size(w, h) == [width |-> w, height |-> h]

-----------------------------------------------------------------------------
(* Colour model: Hsla, hsla, interpolate, to_rgba. *)

Hsla(h, s, l, a) == [h |-> h, s |-> s, l |-> l, a |-> a]

\* The clamping constructor.
hsla(h, s, l, a) ==
    Hsla(FClamp(h, Zero, One), FClamp(s, Zero, One), FClamp(l, Zero, One), FClamp(a, Zero, One))

\* A blend that forgets the (1.0 - t) weight of the first colour.
LerpUnweighted(x, y, t) == FAdd(x, FMul(y, t))

\* One channel of interpolate: x * (1.0 - t) + y * t.
Lerp(x, y, t) == FAdd(FMul(x, FSub(One, t)), FMul(y, t))

interpolate(self, other, t) ==
    hsla(Lerp(self.h, other.h, t), Lerp(self.s, other.s, t),
         Lerp(self.l, other.l, t), Lerp(self.a, other.a, t))

hue_to_rgb(p, q, t) ==
    LET t1 == IF FLt(t, Zero) THEN FAdd(t, One) ELSE t
        t2 == IF FGt(t1, One) THEN FSub(t1, One) ELSE t1
    IN  IF FLt(t2, <<1, 6>>) THEN FAdd(p, FMul(FMul(FSub(q, p), <<6, 1>>), t2))
        ELSE IF FLt(t2, Half) THEN q
        ELSE IF FLt(t2, <<2, 3>>) THEN FAdd(p, FMul(FMul(FSub(q, p), FSub(<<2, 3>>, t2)), <<6, 1>>))
        ELSE p

\* hsl_to_rgb with the hue offsets of red and blue exchanged.
hsl_to_rgb_offsets_swapped(h, s, l) ==
    LET q == IF FLt(l, Half) THEN FMul(l, FAdd(One, s))
             ELSE FSub(FAdd(l, s), FMul(l, s))
        p == FSub(FMul(<<2, 1>>, l), q)
        r == IF s = Zero THEN l ELSE hue_to_rgb(p, q, FSub(h, <<1, 3>>))
        g == IF s = Zero THEN l ELSE hue_to_rgb(p, q, h)
        b == IF s = Zero THEN l ELSE hue_to_rgb(p, q, FAdd(h, <<1, 3>>))
    IN  <<ToByte(r), ToByte(g), ToByte(b)>>

\* The three channels as u8.
hsl_to_rgb(h, s, l) ==
    LET q == IF FLt(l, Half) THEN FMul(l, FAdd(One, s))
             ELSE FSub(FAdd(l, s), FMul(l, s))
        p == FSub(FMul(<<2, 1>>, l), q)
        r == IF s = Zero THEN l ELSE hue_to_rgb(p, q, FAdd(h, <<1, 3>>))
        g == IF s = Zero THEN l ELSE hue_to_rgb(p, q, h)
        b == IF s = Zero THEN l ELSE hue_to_rgb(p, q, FSub(h, <<1, 3>>))
    IN  <<ToByte(r), ToByte(g), ToByte(b)>>

to_rgba(self) == hsl_to_rgb(self.h, self.s, self.l) \o <<ToByte(self.a)>>

\* color_stop; an absent percentage is None.
None == <<>>
Some(v) == <<v>>
unwrap_or(opt, default) == IF opt = None THEN default ELSE opt[1]
color_stop(color, percentage) == [color |-> color, percentage |-> percentage]

-----------------------------------------------------------------------------
(* Gradient engine: geometry. *)

GradientSides == {"Top", "Right", "Bottom", "Left", "TopLeft", "TopRight", "BottomLeft", "BottomRight"}

Angle(a) == [kind |-> "Angle", angle |-> a, side |-> "Top"]
Side(s) == [kind |-> "Side", angle |-> 0, side |-> s]

\* cos and sin of angle.to_radians() at the quarter turns, taken as exact.
Cos(angle) == CASE angle = 0 -> One [] angle = 90 -> Zero [] angle = 180 -> FNeg(One) [] angle = 270 -> Zero
Sin(angle) == CASE angle = 0 -> Zero [] angle = 90 -> One [] angle = 180 -> Zero [] angle = 270 -> FNeg(One)

Two == <<2, 1>>

calculate_start_end(aoc, size) ==
    LET width == Px(size.width)
        height == Px(size.height)
    IN  IF aoc.kind = "Angle"
        THEN LET x == Cos(aoc.angle)
                 y == Sin(aoc.angle)
             IN  <<Point(FDiv(FMul(width, FSub(One, x)), Two), FDiv(FMul(height, FSub(One, y)), Two)),
                   Point(FDiv(FMul(width, FAdd(One, x)), Two), FDiv(FMul(height, FAdd(One, y)), Two))>>
        ELSE CASE aoc.side = "Top" -> <<Point(FDiv(width, Two), height), Point(FDiv(width, Two), Zero)>>
               [] aoc.side = "Right" -> <<Point(Zero, FDiv(height, Two)), Point(width, FDiv(height, Two))>>
               [] aoc.side = "Bottom" -> <<Point(FDiv(width, Two), Zero), Point(FDiv(width, Two), height)>>
               [] aoc.side = "Left" -> <<Point(width, FDiv(height, Two)), Point(Zero, FDiv(height, Two))>>
               [] aoc.side = "TopLeft" -> <<Point(width, height), Point(Zero, Zero)>>
               [] aoc.side = "TopRight" -> <<Point(Zero, height), Point(width, Zero)>>
               [] aoc.side = "BottomLeft" -> <<Point(width, Zero), Point(Zero, height)>>
               [] aoc.side = "BottomRight" -> <<Point(Zero, Zero), Point(width, height)>>

-----------------------------------------------------------------------------
(* Gradient engine: per-pixel colour (gradient.rs). *)

\* Stands for usize::MAX; the model only compares it with stop indexes.
UsizeMax == 2147483647

\* a - b on usize when the build wraps on overflow.
wrapping_sub(a, b) == IF a >= b THEN a - b ELSE UsizeMax - (b - a) + 1

Ok(v) == [panic |-> "none", value |-> v]
Panic(msg) == [panic |-> msg, value |-> <<>>]
IndexOutOfBounds == "index out of bounds"
SubtractOverflow == "attempt to subtract with overflow"

\* A division by the axis length that is done once only.
divided_once(num, sq, dist) ==
    IF IsNaN(dist) THEN FDiv(num, sq) ELSE FDiv(num, dist)

\* num / dist / dist, sq being dist * dist.  Where dist is irrational the two
\* divisions are taken together, num / sq.
divided_twice(num, sq, dist) ==
    IF IsNaN(dist) THEN FDiv(num, sq) ELSE FDiv(FDiv(num, dist), dist)

\* dx * dx + dy * dy
squared_length(dx, dy) == FAdd(FMul(dx, dx), FMul(dy, dy))

\* (x - start.x) * dx + (y - start.y) * dy
dot_product(s, pos, dx, dy) == FAdd(FMul(FSub(pos.x, s.x), dx), FMul(FSub(pos.y, s.y), dy))

\* dot / dist / dist with dist = sqrt(sq).
dot_over_dist(num, sq) == divided_twice(num, sq, FSqrt(sq))

project_along(s, pos, dx, dy) == dot_over_dist(dot_product(s, pos, dx, dy), squared_length(dx, dy))

\* The projection parameter of pos on the axis from s to e.
project(s, e, pos) == project_along(s, pos, FSub(e.x, s.x), FSub(e.y, s.y))

\* t % 1.0 for a repeating gradient, t.clamp(0.0, 1.0) otherwise.
wrap_or_clamp(gtype, t) ==
    IF gtype = "RepeatingLinear" THEN FRem1(t) ELSE FClamp(t, Zero, One)

\* The first operand of the take_while predicate at 0-based index i.
exceeds(stops, t, i) == FGt(t, unwrap_or(stops[i + 1].percentage, One))

\* The take_while predicate at 0-based index i, len - 2 wrapping.
take_pred(stops, t, i) == exceeds(stops, t, i) /\ i < wrapping_sub(Len(stops), 2)

\* The number of leading stops that satisfy the predicate.
RECURSIVE taken(_, _, _)
taken(stops, t, i) ==
    IF i < Len(stops) /\ take_pred(stops, t, i) THEN taken(stops, t, i + 1) ELSE i

\* Whether the scan evaluates len - 2 with len < 2: the predicate is evaluated
\* on stop 0 whenever there is one, and reaches the subtraction when t exceeds
\* that stop's percentage.
scan_underflows(stops, t) == Len(stops) = 1 /\ exceeds(stops, t, 0)

\* .take_while(..).last().map_or(0, |(i, _)| i)
stop_index(stops, t) == LET n == taken(stops, t, 0) IN IF n = 0 THEN 0 ELSE n - 1

start_percentage(stops, i) == unwrap_or(stops[i + 1].percentage, Zero)

end_percentage(stops, i) ==
    IF i + 1 < Len(stops) THEN unwrap_or(stops[i + 2].percentage, One) ELSE One

\* The local parameter handed to interpolate.
local_t(stops, t, i) ==
    FDiv(FSub(t, start_percentage(stops, i)),
         FSub(end_percentage(stops, i), start_percentage(stops, i)))

\* The colour of bracket i at parameter t, or the panic of reaching it;
\* overflow_checks tells a build that panics on integer overflow from one
\* that wraps.
bracket_color(stops, t, i, overflow_checks) ==
    IF overflow_checks /\ scan_underflows(stops, t) THEN Panic(SubtractOverflow)
    ELSE IF i >= Len(stops) THEN Panic(IndexOutOfBounds)
    ELSE IF i + 1 >= Len(stops) THEN Panic(IndexOutOfBounds)
    ELSE Ok(interpolate(stops[i + 1].color, stops[i + 2].color, local_t(stops, t, i)))

\* The colour at lookup parameter t.
color_at(stops, t, overflow_checks) ==
    bracket_color(stops, t, stop_index(stops, t), overflow_checks)

calculate_color(stops, gtype, s, e, pos, overflow_checks) ==
    color_at(stops, wrap_or_clamp(gtype, project(s, e, pos)), overflow_checks)

\* The builds to tell apart for a stop list: len - 2 overflows only when there
\* are fewer than two stops, so with two or more every build computes the same.
Builds(stops) == IF Len(stops) < 2 THEN BOOLEAN ELSE {TRUE}

\* The pixel coordinates of a width x height image in row-major order.
pixel_coords(size) ==
    [k \in 1..(size.width * size.height) |->
        Point((k - 1) % size.width, (k - 1) \div size.width)]

\* Point { x: px(x as f32), y: px(y as f32) } of the k-th pixel.
pixel_pos(size, k) == Point(Px(pixel_coords(size)[k].x), Px(pixel_coords(size)[k].y))

\* The image of the per-pixel outcomes out, or the panic of the first pixel that has one.
image_of(size, out) ==
    LET bad == {k \in DOMAIN out : out[k].panic # "none"}
    IN  IF bad # {}
        THEN Panic(out[CHOOSE k \in bad : \A m \in bad : k <= m].panic)
        ELSE Ok([size |-> size, pixels |-> [k \in DOMAIN out |-> out[k].value]])

\* Gradient::render: the colour of every pixel, or the panic of the first
\* pixel whose colour cannot be computed.  A pixel is kept as the colour
\* calculate_color returned; its BGRA bytes are a function of that colour.
render(stops, gtype, s, e, size, overflow_checks) ==
    image_of(size, [k \in 1..(size.width * size.height) |->
                       calculate_color(stops, gtype, s, e, pixel_pos(size, k), overflow_checks)] \o <<>>)

-----------------------------------------------------------------------------
(* Inputs. *)

Red == hsla(Zero, One, Half, One)
White == hsla(Zero, Half, One, Zero)
Palette == {Red, White}

Origin == Point(Zero, Zero)
Unit == <<>>

-----------------------------------------------------------------------------
(* GradientElement (lib.rs). *)

ElementAngles == {0, 90}
ElementSides == {"Top", "BottomRight"}
ElementPercentages == {Half}
ElementSizes == {Size(w, h) : w \in 0..MaxDim, h \in 0..MaxDim}

\* No call has panicked: the program is still running.
Running == ret.panic = "none"

\* GradientElement::linear().  call records the last render_image call and
\* ret what it returned.
Init ==
    /\ colors = <<>>
    /\ gradient_type = "Linear"
    /\ start = Origin
    /\ end = Origin
    /\ angle_or_corner = Angle(0)
    /\ cached_size = None
    /\ cache = None
    /\ ctor = [op |-> "GradientElement::linear", angle_or_corner |-> Angle(0), size |-> None]
    /\ call = [size |-> None, rendered |-> FALSE]
    /\ ret = Ok(Unit)

angle(a) ==
    /\ Running
    /\ angle_or_corner' = Angle(a)
    /\ UNCHANGED <<colors, gradient_type, start, end, cached_size, cache, ctor, call, ret>>

side(sd) ==
    /\ Running
    /\ angle_or_corner' = Side(sd)
    /\ UNCHANGED <<colors, gradient_type, start, end, cached_size, cache, ctor, call, ret>>

color(c) ==
    /\ Running
    /\ Len(colors) < MaxElementStops
    /\ colors' = Append(colors, color_stop(c, None))
    /\ UNCHANGED <<gradient_type, start, end, angle_or_corner, cached_size, cache, ctor, call, ret>>

color_with_percentage(c, percentage) ==
    /\ Running
    /\ Len(colors) < MaxElementStops
    /\ colors' = Append(colors, color_stop(c, Some(percentage)))
    /\ UNCHANGED <<gradient_type, start, end, angle_or_corner, cached_size, cache, ctor, call, ret>>

\* A cache that is keyed on nothing: any cached image answers any size.
cache_hit_any_size(size) == cache # None

\* Whether render_image(size) answers from the cache.
cache_hit(size) == cache # None /\ cached_size = Some(size)

\* The end of render_image on a miss: image is what self.base.render(size)
\* returned, or its panic, which leaves the cache as it was.
store_image(size, se, image) ==
    /\ UNCHANGED <<colors, gradient_type, angle_or_corner>>
    /\ start' = se[1]
    /\ end' = se[2]
    /\ call' = [size |-> Some(size), rendered |-> TRUE]
    /\ ret' = image
    /\ IF image.panic = "none"
       THEN /\ cached_size' = Some(size)
            /\ cache' = Some(image.value)
       ELSE UNCHANGED <<cached_size, cache>>

\* render_image on a miss, with se the (start, end) resolved for size.
render_miss(size, se, overflow_checks) ==
    store_image(size, se, render(colors, gradient_type, se[1], se[2], size, overflow_checks))

render_image(size) ==
    /\ Running
    /\ UNCHANGED ctor
    /\ IF cache_hit(size)
       THEN /\ UNCHANGED <<colors, gradient_type, start, end, angle_or_corner, cached_size, cache>>
            /\ call' = [size |-> Some(size), rendered |-> FALSE]
            /\ ret' = Ok(cache[1])
       ELSE \E overflow_checks \in Builds(colors) :
                render_miss(size, calculate_start_end(angle_or_corner, size), overflow_checks)

Next ==
    \/ \E a \in ElementAngles : angle(a)
    \/ \E sd \in ElementSides : side(sd)
    \/ \E c \in Palette : color(c)
    \/ \E c \in Palette, percentage \in ElementPercentages : color_with_percentage(c, percentage)
    \/ \E size \in ElementSizes : render_image(size)

Spec == Init /\ [][Next]_vars

-----------------------------------------------------------------------------
(* Claims about the GradientElement. *)

NumPixels(size) == size.width * size.height
InsufficientStops == "insufficient stops"

\* C1: when the gradient holds fewer than 2 colour stops, computing a pixel
\* colour ends in the explicit "insufficient stops" error; it is never an
\* underflow of the stop count nor an out-of-bounds index of the stop list.
C1_InsufficientStopsError ==
    (call.rendered /\ NumPixels(call.size[1]) > 0 /\ Len(colors) < 2)
        => ret.panic = InsufficientStops

\* C8: render_image caches by size.  A call whose size is that of the
\* immediately preceding call returns the cached image itself, renders nothing
\* and leaves cache, cached_size, base.start and base.end alone; a returning
\* call with any other size resolves start/end for that size, renders, and
\* replaces cache and cached_size by the new image and size.  (A step is
\* first matched on the size it records, which every render_image(size) step
\* does, so that the action is evaluated for that size only.)
C8_CachesBySize ==
    [][\A size \in ElementSizes :
        (call'.size = Some(size) /\ render_image(size)) =>
            IF call.size = Some(size)
            THEN /\ ~call'.rendered
                 /\ ret' = Ok(cache[1])
                 /\ ret' = ret
                 /\ UNCHANGED <<cache, cached_size, start, end>>
            ELSE ret'.panic = "none" =>
                 /\ call'.rendered
                 /\ <<start', end'>> = calculate_start_end(angle_or_corner, size)
                 /\ ret'.value.size = size
                 /\ cache' = Some(ret'.value)
                 /\ cached_size' = Some(size)]_vars

\* C8 witness: a call answered from the cache with an image that has pixels,
\* made after the element's direction moved away from the one it was rendered with.
C8_Witness ==
    /\ call.size # None
    /\ ~call.rendered
    /\ NumPixels(call.size[1]) > 0
    /\ ret = Ok(cache[1])
    /\ <<start, end>> # calculate_start_end(angle_or_corner, call.size[1])

\* C14: the image render_image(size) returns is never stale: after any sequence
\* of builder calls (angle, side, color, color_with_percentage) and
\* render_image calls, a returning call gives the image a fresh render of the
\* element's current direction and current stop list at that size produces,
\* and leaves base.start and base.end at calculate_start_end of the current
\* direction and that size.
C14_NeverStale ==
    [][\A size \in ElementSizes :
        (call'.size = Some(size) /\ render_image(size) /\ ret'.panic = "none") =>
            /\ <<start', end'>> = calculate_start_end(angle_or_corner', size)
            /\ ret' = render(colors', gradient_type',
                             calculate_start_end(angle_or_corner', size)[1],
                             calculate_start_end(angle_or_corner', size)[2],
                             size, TRUE)]_vars

-----------------------------------------------------------------------------
(* Gradient (gradient.rs), built and rendered directly. *)

Angles == {0, 90, 180, 270}
GradientDirections == {Angle(a) : a \in Angles} \cup {Side("Right"), Side("BottomRight")}
GradientSizes == {Size(0, 1), Size(SquareDim, SquareDim), Size(WideW, 1)}

StopPercentages == {None, Some(Zero), Some(Half), Some(One)}
\* Stop k of a stop list is red for odd k and white for even k.
StopColor(k) == IF k % 2 = 1 THEN Red ELSE White
StopLists ==
    UNION {{[k \in 1..n |-> color_stop(StopColor(k), f[k])] : f \in [1..n -> StopPercentages]}
           : n \in 0..MaxStops}

\* The GradientElement fields of a state that holds a bare Gradient.
NoElement ==
    /\ angle_or_corner = Angle(0)
    /\ cached_size = None
    /\ cache = None
    /\ call = [size |-> None, rendered |-> FALSE]
    /\ ret = Ok(Unit)

\* Gradient::new(gradient_type, colors)
Gradient_new(gtype, stops) ==
    /\ colors = stops
    /\ gradient_type = gtype
    /\ start = Origin
    /\ end = Origin
    /\ ctor = [op |-> "new", angle_or_corner |-> Angle(0), size |-> None]

\* Gradient::linear(angle_or_corner, colors, size)
Gradient_linear(aoc, stops, size) ==
    /\ colors = stops
    /\ gradient_type = "Linear"
    /\ start = calculate_start_end(aoc, size)[1]
    /\ end = calculate_start_end(aoc, size)[2]
    /\ ctor = [op |-> "linear", angle_or_corner |-> aoc, size |-> Some(size)]

\* Gradient::repeating_linear(angle_or_corner, colors, size)
Gradient_repeating_linear(aoc, stops, size) ==
    /\ colors = stops
    /\ gradient_type = "RepeatingLinear"
    /\ start = calculate_start_end(aoc, size)[1]
    /\ end = calculate_start_end(aoc, size)[2]
    /\ ctor = [op |-> "repeating_linear", angle_or_corner |-> aoc, size |-> Some(size)]

\* The Linear gradients.
GradientInit ==
    /\ NoElement
    /\ \E stops \in StopLists :
        \/ Gradient_new("Linear", stops)
        \/ \E aoc \in GradientDirections, size \in GradientSizes : Gradient_linear(aoc, stops, size)

\* The RepeatingLinear gradients.
RepeatingInit ==
    /\ NoElement
    /\ \E stops \in StopLists :
        \/ Gradient_new("RepeatingLinear", stops)
        \/ \E aoc \in GradientDirections, size \in GradientSizes :
               Gradient_repeating_linear(aoc, stops, size)

\* Gradient::render(size)
Gradient_render(size) ==
    /\ Running
    /\ \E overflow_checks \in Builds(colors) :
           ret' = render(colors, gradient_type, start, end, size, overflow_checks)
    /\ call' = [size |-> Some(size), rendered |-> TRUE]
    /\ UNCHANGED <<colors, gradient_type, start, end, angle_or_corner, cached_size, cache, ctor>>

GradientNext == \E size \in GradientSizes : Gradient_render(size)

SpecGradient == GradientInit /\ [][GradientNext]_vars

SpecRepeating == RepeatingInit /\ [][GradientNext]_vars

-----------------------------------------------------------------------------
(* Claims about the Gradient engine. *)

\* A render call has returned an image.
Rendered == call.rendered /\ ret.panic = "none"
PixelIndexes == DOMAIN ret.value.pixels
PixelXY(k) == pixel_coords(ret.value.size)[k]
PixelPos(k) == Point(Px(PixelXY(k).x), Px(PixelXY(k).y))
\* The projection parameter of pixel k, and the parameter used for stop lookup.
RawT(k) == project(start, end, PixelPos(k))
LookupT(k) == wrap_or_clamp(gradient_type, RawT(k))

\* The percentage of stop j (1-based) as an upper and as a lower bound.
UpperPct(stops, j) == unwrap_or(stops[j].percentage, One)
LowerPct(stops, j) == unwrap_or(stops[j].percentage, Zero)
NonDecreasing(stops) ==
    \A j \in 1..(Len(stops) - 1) :
        /\ FLe(UpperPct(stops, j), UpperPct(stops, j + 1))
        /\ FLe(LowerPct(stops, j), LowerPct(stops, j + 1))
InUnitInterval(t) == FLe(Zero, t) /\ FLe(t, One)

\* The bracket the claim names: the smallest i in 0..n-2 with
\* t <= percentage(stop i+1), and n-2 when there is none.
ClaimedBracket(stops, t) ==
    LET n == Len(stops)
        fits == {i \in 0..(n - 2) : FLe(t, UpperPct(stops, i + 2))}
    IN  IF fits = {} THEN n - 2 ELSE CHOOSE i \in fits : \A m \in fits : i <= m

\* C2: for a stop list of n >= 2 stops with non-decreasing percentages and a
\* lookup parameter t in [0,1], calculate_color selects the smallest bracket i
\* in 0..n-2 with t <= percentage(stop i+1), the last bracket n-2 when t exceeds
\* every upper bound, and interpolates stops i and i+1 at
\* (t - start_pct) / (end_pct - start_pct).
C2_FirstBracketAtOrAboveT ==
    Rendered =>
        \A k \in PixelIndexes :
            LET t == LookupT(k)
                i == ClaimedBracket(colors, t)
            IN  (Len(colors) >= 2 /\ NonDecreasing(colors) /\ InUnitInterval(t)) =>
                    /\ stop_index(colors, t) = i
                    /\ ret.value.pixels[k] =
                           interpolate(colors[i + 1].color, colors[i + 2].color,
                                       FDiv(FSub(t, LowerPct(colors, i + 1)),
                                            FSub(UpperPct(colors, i + 2), LowerPct(colors, i + 1))))

\* C3: a RepeatingLinear gradient with two stops at 0.0 and 0.5 repeats with
\* the period of its stop range: the pixels whose raw projection parameters
\* are 0.1 and 0.6 get the same colour.
C3_RepeatsWithStopRange ==
    (/\ Rendered
     /\ gradient_type = "RepeatingLinear"
     /\ Len(colors) = 2
     /\ colors[1].percentage = Some(Zero)
     /\ colors[2].percentage = Some(Half)) =>
        \A j, k \in PixelIndexes :
            (RawT(j) = Rat(1, 10) /\ RawT(k) = Rat(6, 10)) => ret.value.pixels[j] = ret.value.pixels[k]

\* C4: when the two stops of the selected bracket have the same effective
\* percentage, calculate_color does not divide by zero: the pixel gets the
\* colour of the later stop of the pair.
C4_ZeroWidthBracketGivesLaterStop ==
    Rendered =>
        \A k \in PixelIndexes :
            LET i == stop_index(colors, LookupT(k))
            IN  (InUnitInterval(LookupT(k)) /\ end_percentage(colors, i) = start_percentage(colors, i)) =>
                    ret.value.pixels[k] = colors[i + 2].color

\* C5: when the gradient axis is degenerate (start = end, dist = 0) the
\* projection divides by nothing and every pixel gets the first stop's colour.
C5_DegenerateAxisGivesFirstStop ==
    (Rendered /\ start = end) =>
        \A k \in PixelIndexes : ret.value.pixels[k] = colors[1].color

\* The named side the claim pairs with each quarter-turn angle.
ClaimedSide(a) ==
    CASE a = 0 -> "Top" [] a = 90 -> "Right" [] a = 180 -> "Bottom" [] a = 270 -> "Left"

\* C6: for every canvas size, calculate_start_end of Angle(0), Angle(90),
\* Angle(180) and Angle(270) returns the (start, end) pair of the named sides
\* Top, Right, Bottom and Left respectively.
C6_QuarterTurnsMatchSides ==
    (ctor.size # None /\ ctor.angle_or_corner.kind = "Angle") =>
        <<start, end>> =
            calculate_start_end(Side(ClaimedSide(ctor.angle_or_corner.angle)), ctor.size[1])

\* A Linear gradient built for direction Side::Right on a canvas with pixels,
\* rendered at that canvas.
RightOnItsCanvas ==
    /\ Rendered
    /\ ctor.op = "linear"
    /\ ctor.angle_or_corner = Side("Right")
    /\ NumPixels(ctor.size[1]) > 0
    /\ ret.value.size = ctor.size[1]

ExplicitPercentages(stops) ==
    \A j \in 1..Len(stops) :
        stops[j].percentage # None /\ InUnitInterval(stops[j].percentage[1])

\* The blend factor calculate_color hands to interpolate for pixel k.
BlendFactor(k) == local_t(colors, LookupT(k), stop_index(colors, LookupT(k)))

\* No two neighbouring stops share a percentage: every bracket has a width.
DistinctPercentages(stops) ==
    \A j \in 1..(Len(stops) - 1) : LowerPct(stops, j) # UpperPct(stops, j + 1)

\* C11: for every Linear gradient with at least 2 stops whose percentages are
\* non-decreasing values in [0,1], and every pixel, the local parameter
\* t' = (t - start_pct) / (end_pct - start_pct) that calculate_color passes to
\* interpolate satisfies 0 <= t' <= 1.  It is stated for the gradients on
\* which t' is the quotient of two numbers: an axis of positive length and
\* brackets of positive width (for example stops at 0.5 and 1.0).
C11_BlendFactorInUnitInterval ==
    (/\ Rendered
     /\ gradient_type = "Linear"
     /\ start # end
     /\ Len(colors) >= 2
     /\ ExplicitPercentages(colors)
     /\ NonDecreasing(colors)
     /\ DistinctPercentages(colors)) =>
        \A k \in PixelIndexes : InUnitInterval(BlendFactor(k))

\* C13: for a RepeatingLinear gradient the raw projection parameter is reduced
\* to its fractional part, so the parameter used for stop lookup lies in [0,1)
\* for every pixel, the pixels whose raw parameter is negative or exactly 1
\* included.  It is stated for the axes of positive length, on which the raw
\* parameter is a number.
C13_RepeatingParameterInUnitRange ==
    (Rendered /\ gradient_type = "RepeatingLinear" /\ start # end) =>
        \A k \in PixelIndexes : FLe(Zero, LookupT(k)) /\ FLt(LookupT(k), One)

-----------------------------------------------------------------------------
(* The colour model on its own (main.rs): interpolate and to_rgba applied to *)
(* colours built by hsla.                                                   *)

HueInputs == {Zero, <<1, 3>>, <<2, 3>>}
SaturationInputs == {Zero, One}
LightnessInputs == {Zero, Half, One}
AlphaInputs == {Zero, <<3, 2>>}
ColorInputs ==
    {hsla(h, s, l, a) : h \in HueInputs, s \in SaturationInputs, l \in LightnessInputs, a \in AlphaInputs}
\* Blend factors, inside and outside [0, 1].
BlendFactors == {<<-1, 2>>, Zero, <<1, 4>>, Half, One, <<3, 2>>}

\* The Gradient and GradientElement fields of a state that holds colours only.
NoGradient ==
    /\ colors = <<>>
    /\ gradient_type = "Linear"
    /\ start = Origin
    /\ end = Origin
    /\ angle_or_corner = Angle(0)
    /\ cached_size = None
    /\ cache = None

ColorInit ==
    /\ NoGradient
    /\ ctor \in [op : {"hsla"}, self : ColorInputs, other : ColorInputs, t : BlendFactors]
    /\ call = [op |-> "none"]
    /\ ret = Ok(Unit)

\* self.interpolate(other, t)
Hsla_interpolate ==
    /\ call' = [op |-> "interpolate"]
    /\ ret' = Ok(interpolate(ctor.self, ctor.other, ctor.t))
    /\ UNCHANGED <<colors, gradient_type, start, end, angle_or_corner, cached_size, cache, ctor>>

\* self.to_rgba()
Hsla_to_rgba ==
    /\ call' = [op |-> "to_rgba"]
    /\ ret' = Ok(to_rgba(ctor.self))
    /\ UNCHANGED <<colors, gradient_type, start, end, angle_or_corner, cached_size, cache, ctor>>

ColorNext == Hsla_interpolate \/ Hsla_to_rgba

SpecColor == ColorInit /\ [][ColorNext]_vars

-----------------------------------------------------------------------------
(* Claims about the colour model. *)

\* C9: for colours a, b built by the clamping constructor,
\* interpolate(a, b, 0) = a, interpolate(a, b, 1) = b, and interpolate(a, a, t) = a
\* for every (finite) blend factor t, in exact arithmetic.
C9_InterpolateEndpoints ==
    call.op = "interpolate" =>
        /\ ctor.t = Zero => ret.value = ctor.self
        /\ ctor.t = One => ret.value = ctor.other
        /\ ctor.self = ctor.other => ret.value = ctor.self

\* C9 witness: a blend of two different colours at t = 1 that returned the
\* second one.
C9_Witness ==
    /\ call.op = "interpolate"
    /\ ctor.self # ctor.other
    /\ ctor.t = One
    /\ ret.value = ctor.other

\* C10: the HSL -> RGB conversion with byte truncation maps hsla(0,0,0,1) to
\* (0,0,0,255), hsla(0,0,1,1) to (255,255,255,255) and hsla(0,1,0.5,1) to
\* (255,0,0,255).
C10_RgbFixedPoints ==
    call.op = "to_rgba" =>
        /\ ctor.self = hsla(Zero, Zero, Zero, One) => ret.value = <<0, 0, 0, 255>>
        /\ ctor.self = hsla(Zero, Zero, One, One) => ret.value = <<255, 255, 255, 255>>
        /\ ctor.self = hsla(Zero, One, Half, One) => ret.value = <<255, 0, 0, 255>>

\* C10 witness: pure red converted to (255, 0, 0, 255).
C10_Witness ==
    /\ call.op = "to_rgba"
    /\ ctor.self = hsla(Zero, One, Half, One)
    /\ ret.value = <<255, 0, 0, 255>>

-----------------------------------------------------------------------------
(* The standalone program (main.rs): its Gradient has the Radial and Conic  *)
(* types as well, and calculate_color scans the stops with a while loop.    *)

\* Number of the last pixel looked at on the centre's row and column.
MainReach == 6

\* The canvas of the linear gradients; the centre of the radial and conic ones
\* is its middle, as in generate_radial and generate_conic.
MainCanvas == Size(8, 10)
MainCentre == Point(FDiv(Px(MainCanvas.width), Two), FDiv(Px(MainCanvas.height), Two))
\* The end point Gradient::radial and Gradient::conic set.
MainEnd == Point(One, One)

\* The pixels of the centre's row and column: their distance to the centre is
\* rational and their atan2 a multiple of PI / 2.
MainPositions ==
    {Point(Px(x), MainCentre.y) : x \in 0..MainReach}
        \cup {Point(MainCentre.x, Px(y)) : y \in 0..MainReach}

MainDirections == {Side("Right"), Angle(90)}

\* v.powi(2)
Powi2(v) == FMul(v, v)

\* dist / max_dist of the Radial arm.
radial_parameter(s, e, pos) ==
    FDiv(FSqrt(FAdd(Powi2(FSub(pos.x, s.x)), Powi2(FSub(pos.y, s.y)))),
         FSqrt(FAdd(Powi2(FSub(s.x, e.x)), Powi2(FSub(s.y, e.y)))))

\* (dy.atan2(dx) + PI) / (2.0 * PI) where dx or dy is zero.
turn(dx, dy) ==
    IF Sign(dy) = 0 THEN (IF Sign(dx) < 0 THEN One ELSE Half)
    ELSE IF Sign(dy) > 0 THEN <<3, 4>>
    ELSE <<1, 4>>

conic_parameter(s, pos) == turn(FSub(pos.x, s.x), FSub(pos.y, s.y))

\* The match on gradient_type.
main_parameter(gtype, s, e, pos) ==
    CASE gtype \in {"Linear", "RepeatingLinear"} -> project(s, e, pos)
      [] gtype = "Radial" -> radial_parameter(s, e, pos)
      [] gtype = "Conic" -> conic_parameter(s, pos)

\* The while loop from index i (0-based) of a non-empty stop list:
\* while i < len - 1 && t > colors[i + 1].percentage.unwrap_or(1.0) { i += 1 }
RECURSIVE main_scan(_, _, _)
main_scan(stops, t, i) ==
    IF i < Len(stops) - 1 /\ FGt(t, unwrap_or(stops[i + 2].percentage, One))
    THEN main_scan(stops, t, i + 1)
    ELSE i

\* What follows the loop, which stopped at index i.
main_bracket_color(stops, t, i) ==
    IF i + 1 >= Len(stops) THEN Panic(IndexOutOfBounds)
    ELSE Ok(interpolate(stops[i + 1].color, stops[i + 2].color,
                        FDiv(FSub(t, unwrap_or(stops[i + 1].percentage, Zero)),
                             FSub(unwrap_or(stops[i + 2].percentage, One),
                                  unwrap_or(stops[i + 1].percentage, Zero)))))

\* The colour at lookup parameter t.  With no stop, len - 1 overflows: a panic
\* where overflow is checked, and colors[1] of an empty list where it wraps.
main_color_at(stops, t, overflow_checks) ==
    IF Len(stops) = 0
    THEN (IF overflow_checks THEN Panic(SubtractOverflow) ELSE Panic(IndexOutOfBounds))
    ELSE main_bracket_color(stops, t, main_scan(stops, t, 0))

main_calculate_color(stops, gtype, s, e, pos, overflow_checks) ==
    main_color_at(stops, wrap_or_clamp(gtype, main_parameter(gtype, s, e, pos)), overflow_checks)

\* The builds to tell apart for a stop list: len - 1 overflows only when the list is empty.
MainBuilds(stops) == IF Len(stops) = 0 THEN BOOLEAN ELSE {TRUE}

\* The GradientElement fields of a state of the standalone program.
NoElementInMain ==
    /\ angle_or_corner = Angle(0)
    /\ cached_size = None
    /\ cache = None
    /\ call = [pos |-> None]
    /\ ret = Ok(Unit)

\* Gradient::linear(angle_or_corner, colors, width, height)
Main_linear(aoc, stops) ==
    /\ colors = stops
    /\ gradient_type = "Linear"
    /\ start = calculate_start_end(aoc, MainCanvas)[1]
    /\ end = calculate_start_end(aoc, MainCanvas)[2]
    /\ ctor = [op |-> "linear", angle_or_corner |-> aoc]

\* Gradient::repeating_linear(angle_or_corner, colors, width, height)
Main_repeating_linear(aoc, stops) ==
    /\ colors = stops
    /\ gradient_type = "RepeatingLinear"
    /\ start = calculate_start_end(aoc, MainCanvas)[1]
    /\ end = calculate_start_end(aoc, MainCanvas)[2]
    /\ ctor = [op |-> "repeating_linear", angle_or_corner |-> aoc]

\* Gradient::radial(start, colors)
Main_radial(s, stops) ==
    /\ colors = stops
    /\ gradient_type = "Radial"
    /\ start = s
    /\ end = MainEnd
    /\ ctor = [op |-> "radial", angle_or_corner |-> Angle(0)]

\* Gradient::conic(start, colors)
Main_conic(s, stops) ==
    /\ colors = stops
    /\ gradient_type = "Conic"
    /\ start = s
    /\ end = MainEnd
    /\ ctor = [op |-> "conic", angle_or_corner |-> Angle(0)]

MainInit ==
    /\ NoElementInMain
    /\ \E stops \in StopLists :
        \/ \E aoc \in MainDirections : Main_linear(aoc, stops)
        \/ \E aoc \in MainDirections : Main_repeating_linear(aoc, stops)
        \/ Main_radial(MainCentre, stops)
        \/ Main_conic(MainCentre, stops)

\* gradient.calculate_color(pos)
Main_calculate_color(pos) ==
    /\ Running
    /\ \E overflow_checks \in MainBuilds(colors) :
           ret' = main_calculate_color(colors, gradient_type, start, end, pos, overflow_checks)
    /\ call' = [pos |-> Some(pos)]
    /\ UNCHANGED <<colors, gradient_type, start, end, angle_or_corner, cached_size, cache, ctor>>

MainNext == \E pos \in MainPositions : Main_calculate_color(pos)

SpecMain == MainInit /\ [][MainNext]_vars

-----------------------------------------------------------------------------
(* Claims about the standalone program. *)

\* The lookup parameter of the last calculate_color call.
MainT == wrap_or_clamp(gradient_type, main_parameter(gradient_type, start, end, call.pos[1]))

\* C12: in main.rs the stop scan of calculate_color never advances the index i
\* past len - 2: for every stop list with at least 2 stops and every parameter
\* t in [0,1], the final i satisfies i + 1 <= len - 1, so self.colors[i + 1]
\* is a valid index and the call returns a colour.
C12_ScanStopsBeforeLastStop ==
    (call.pos # None /\ Len(colors) >= 2 /\ InUnitInterval(MainT)) =>
        /\ main_scan(colors, MainT, 0) + 1 <= Len(colors) - 1
        /\ ret.panic = "none"

====
